---- MODULE Spec2Model ----
(***************************************************************************)
(* PrismEcho spatial audio core: the useSpatialAudio hook (source registry *)
(* and proximity mixer) as driven by SpatialCanvas.                        *)
(*                                                                         *)
(* Numbers.  Coordinates and distances are whole pixels; Math.sqrt is the  *)
(* integer square root (exact on perfect squares, rounded down to the      *)
(* pixel otherwise).  A volume is kept exactly, as the numerator of a      *)
(* fraction over GainUnit = MAX_DISTANCE - MIN_DISTANCE: 130 is 1.0, 100   *)
(* is 1 - 30/130, 0 is 0.0.                                                *)
(***************************************************************************)
EXTENDS Integers, Sequences, FiniteSets, TLC

\* ---------------------------------------------------------------- bounds
MaxSources == 2
NumIds == 2
MaxNodes == 3
MaxJoins == 2
MaxSockets == 3

Ids == {ToString(n) : n \in 1..NumIds}
Uris == {"/recording_5.m4a", "blob:reply"}
ListenerPoints == {<<0, 0>>, <<100, 0>>, <<270, 0>>}
SourcePoints == {<<3, 4>>, <<50, 0>>, <<250, 0>>}

\* The canvas: window.innerWidth and innerHeight, the pointer positions tried,
\* and the offsets Math.random can give a reply (250 px at angle 0 or pi/2).
InnerWidth == 400
InnerHeight == 300
CanvasMousePoints == {<<0, 0>>, <<270, 0>>, <<1000, 0>>}
ReplyOffsets == {<<250, 0>>, <<0, 250>>}

\* ------------------------------------------------------------- constants
MAX_DISTANCE == 150
MIN_DISTANCE == 20
GainUnit == MAX_DISTANCE - MIN_DISTANCE

VARIABLES
    userX, userY,   \* listener position handed to the hook
    sources,        \* source list handed to the hook (sequence of AudioSource)
    howls,          \* howls.current: id -> which Howl of allHowls[id] it holds
    allHowls,       \* every Howl object constructed so far, grouped by the
                    \* id it was constructed for, in creation order
    distances,      \* the distances state published by the hook
    mounted,        \* the first render's effects have run
    rerun,          \* the last recompute had the inputs of the one before it
    pending,        \* effects of the last render that have not run yet:
                    \* "none", "volume" or "both"
    lastSetGain,    \* the gain request made by the last step, if it was one:
                    \* [id, gain, before], before = the stored gain it met
    failed,         \* ids whose Howl has emitted playerror
    nodes,          \* the node list of the store, as SpatialCanvas reads it
    focusedNodeId,  \* SpatialCanvas state
    focusTimer,
    canReply,
    isReplyModalOpen,
    howlerMuted,    \* the global mute flag of Howler
    unmounted,      \* SpatialCanvas has been unmounted
    pendingFocus,   \* distances were set and the focus effect has not run yet
    pendingCommit,  \* canvas state was set and its render has not committed yet
    intervalOn,     \* the 30 ms interval of the timer effect is installed
    sockets,        \* every WebSocket useSocket has created, in creation order
    ws,             \* ws.current: 0 for null, or the index of a socket
    isConnected,    \* the isConnected state of useSocket
    timers,         \* retry timeouts that are set and have not fired, each
                    \* named by the socket whose close event set it
    reconnectTimeout, \* reconnectTimeout.current: 0 for undefined, or a timer
    hookState       \* useSocket's effect: "idle", "mounted" or "unmounted"

hookVars == <<userX, userY, sources, howls, allHowls, distances, mounted, rerun>>

\* State of the finer-grained specifications, idle in Spec.
canvasVars == <<nodes, focusedNodeId, focusTimer, canReply, isReplyModalOpen,
                howlerMuted, unmounted>>
focusRaceVars == <<pendingFocus, pendingCommit, intervalOn>>
socketVars == <<sockets, ws, isConnected, timers, reconnectTimeout, hookState>>
extraVars == <<focusRaceVars, socketVars>>
auxVars == <<lastSetGain, failed, canvasVars, extraVars>>
otherVars == <<pending, auxVars>>

vars == <<hookVars, otherVars>>

\* ------------------------------------------------------------- helpers
EmptyRecord == <<>>

Null == "null"

Max(a, b) == IF a >= b THEN a ELSE b

\* Every id a Howl can be constructed for.
HeapIds == {ToString(n) : n \in 1..Max(NumIds, MaxNodes)}

Put(f, k, v) == [x \in DOMAIN f \cup {k} |-> IF x = k THEN v ELSE f[x]]

Pow2(a) == a * a

\* Integer square root by bisection: lo * lo <= n < (hi + 1) * (hi + 1).
RECURSIVE SqrtBetween(_, _, _)
SqrtBetween(n, lo, hi) ==
    IF lo = hi THEN lo
    ELSE LET mid == (lo + hi + 1) \div 2
         IN IF mid * mid <= n THEN SqrtBetween(n, mid, hi)
                              ELSE SqrtBetween(n, lo, mid - 1)

\* No root of a 32-bit integer is above 46340; searching below it keeps
\* mid * mid within range.
Sqrt(n) == SqrtBetween(n, 0, IF n < 46340 THEN n ELSE 46340)

AudioSource(id, p, src) == [id |-> id, x |-> p[1], y |-> p[2], src |-> src]

SourceIds(srcs) == {srcs[i].id : i \in 1..Len(srcs)}

\* ------------------------------------------------------- source registry
NewHowl(s) ==
    [src |-> s.src, autoplay |-> TRUE, loop |-> TRUE, volume |-> 0]

\* howls.current[s.id] = new Howl(...)
Construct(reg, s) ==
    [howls |-> Put(reg.howls, s.id, Len(reg.heap[s.id]) + 1),
     heap |-> [reg.heap EXCEPT ![s.id] = Append(@, NewHowl(s))]]

EnsureRegistered_NoCreate(reg, s) == reg

EnsureRegistered_Rebind(reg, s) ==
    IF s.id \in DOMAIN reg.howls
    THEN [reg EXCEPT !.heap[s.id][reg.howls[s.id]].src = s.src]
    ELSE Construct(reg, s)

EnsureRegistered_Recreate(reg, s) == Construct(reg, s)

EnsureRegistered(reg, s) ==
    IF s.id \in DOMAIN reg.howls
    THEN reg
    ELSE Construct(reg, s)

RECURSIVE RegistrationFrom(_, _, _)
RegistrationFrom(srcs, i, reg) ==
    IF i > Len(srcs) THEN reg
    ELSE RegistrationFrom(srcs, i + 1, EnsureRegistered(reg, srcs[i]))

RegistrationEffect_Prune(srcs, reg) ==
    LET out == RegistrationFrom(srcs, 1, reg)
    IN [out EXCEPT !.howls = [id \in DOMAIN out.howls \cap SourceIds(srcs) |->
                                 out.howls[id]]]

RegistrationEffect(srcs, reg) == RegistrationFrom(srcs, 1, reg)

\* ------------------------------------------------------- proximity mixer
Dist_Manhattan(s, ux, uy) ==
    Max(s.x - ux, ux - s.x) + Max(s.y - uy, uy - s.y)

\* Math.sqrt, computed once for each squared distance the model's points give.
\* The demo nodes seeded when the store is empty.
SeedNodes ==
    << [id |-> "1", x |-> InnerWidth \div 2, y |-> InnerHeight \div 2],
       [id |-> "2", x |-> InnerWidth \div 4, y |-> InnerHeight \div 3] >>

CanvasNodePoints ==
    LET seeds == {<<SeedNodes[i].x, SeedNodes[i].y>> : i \in 1..Len(SeedNodes)}
        origins == seeds \cup CanvasMousePoints
    IN seeds \cup {<<s[1] + o[1], s[2] + o[2]>> : s \in origins, o \in ReplyOffsets}

SquaredDistances ==
    {Pow2(s[1] - l[1]) + Pow2(s[2] - l[2]) : s \in SourcePoints, l \in ListenerPoints}
    \cup {Pow2(s[1] - l[1]) + Pow2(s[2] - l[2]) :
             s \in CanvasNodePoints, l \in CanvasMousePoints}

SqrtOf == [n \in SquaredDistances |-> Sqrt(n)]

Dist(s, ux, uy) == SqrtOf[Pow2(s.x - ux) + Pow2(s.y - uy)]

Vol_NoDeadZone(dist) == Max(0, GainUnit - (dist - MIN_DISTANCE))

Vol_NoFloor(dist) == GainUnit - Max(0, dist - MIN_DISTANCE)

Vol_Rising(dist) == Max(0, GainUnit - Max(0, MAX_DISTANCE - dist))

Vol_Steep(dist) == Max(0, GainUnit - 2 * Max(0, dist - MIN_DISTANCE))

Vol(dist) == Max(0, GainUnit - Max(0, dist - MIN_DISTANCE))

HowlVolume_Clamp(h, vol) ==
    [h EXCEPT !.volume = IF vol < 0 THEN 0 ELSE IF vol > GainUnit THEN GainUnit ELSE vol]

HowlVolume_OnlyLouder(h, vol) ==
    IF vol >= h.volume /\ vol <= GainUnit THEN [h EXCEPT !.volume = vol] ELSE h

\* Howl.volume(vol) of howler.js, as the hook calls it: a value within
\* [0, 1] is stored on the Howl, any other value leaves the Howl as it was.
HowlVolume(h, vol) ==
    IF vol >= 0 /\ vol <= GainUnit THEN [h EXCEPT !.volume = vol] ELSE h

\* if (howls.current[id]) howls.current[id].volume(vol)
GuardedVolume(hw, heap, id, vol) ==
    IF id \in DOMAIN hw
    THEN [heap EXCEPT ![id][hw[id]] = HowlVolume(@, vol)]
    ELSE heap

InitialDistances_Merge(prev) == prev

InitialDistances(prev) == EmptyRecord

VolumeStep(s, ux, uy, reg, acc) ==
    LET dist == Dist(s, ux, uy)
        vol == Vol(dist)
    IN [newDistances |-> Put(acc.newDistances, s.id, dist),
        heap |-> GuardedVolume(reg.howls, acc.heap, s.id, vol)]

RECURSIVE VolumeFrom_AbortOnFailed(_, _, _, _, _, _)
VolumeFrom_AbortOnFailed(srcs, i, ux, uy, reg, acc) ==
    IF i > Len(srcs) \/ srcs[i].id \in failed THEN acc
    ELSE VolumeFrom_AbortOnFailed(srcs, i + 1, ux, uy, reg,
                                  VolumeStep(srcs[i], ux, uy, reg, acc))

RECURSIVE VolumeFrom_AbortOnMiss(_, _, _, _, _, _)
VolumeFrom_AbortOnMiss(srcs, i, ux, uy, reg, acc) ==
    IF i > Len(srcs) \/ srcs[i].id \notin DOMAIN reg.howls THEN acc
    ELSE VolumeFrom_AbortOnMiss(srcs, i + 1, ux, uy, reg,
                                VolumeStep(srcs[i], ux, uy, reg, acc))

RECURSIVE VolumeFrom(_, _, _, _, _, _)
VolumeFrom(srcs, i, ux, uy, reg, acc) ==
    IF i > Len(srcs) THEN acc
    ELSE VolumeFrom(srcs, i + 1, ux, uy, reg, VolumeStep(srcs[i], ux, uy, reg, acc))

VolumeEffect(srcs, ux, uy, reg, prev) ==
    VolumeFrom(srcs, 1, ux, uy, reg,
               [newDistances |-> InitialDistances(prev), heap |-> reg.heap])

\* ---------------------------------------------------------------- state
\* 1.5 and -0.3, in units of 1 / GainUnit.
RequestedGains == {195, -39}

NoRequest == [id |-> "", gain |-> 0, before |-> -1]

Init ==
    /\ userX = 0
    /\ userY = 0
    /\ sources = <<>>
    /\ howls = EmptyRecord
    /\ allHowls = [id \in HeapIds |-> <<>>]
    /\ distances = EmptyRecord
    /\ mounted = FALSE
    /\ rerun = FALSE
    /\ pending = "none"
    /\ lastSetGain = NoRequest
    /\ failed = {}
    /\ nodes = <<>>
    /\ focusedNodeId = Null
    /\ focusTimer = 0
    /\ canReply = FALSE
    /\ isReplyModalOpen = FALSE
    /\ howlerMuted = FALSE
    /\ unmounted = FALSE
    /\ pendingFocus = FALSE
    /\ pendingCommit = FALSE
    /\ intervalOn = FALSE
    /\ sockets = <<>>
    /\ ws = 0
    /\ isConnected = FALSE
    /\ timers = {}
    /\ reconnectTimeout = 0
    /\ hookState = "idle"

Effects_OnSourcesOnly(ux, uy, srcs, runRegistration) ==
    LET reg0 == [howls |-> howls, heap |-> allHowls]
        reg1 == IF runRegistration THEN RegistrationEffect(srcs, reg0) ELSE reg0
        out == IF runRegistration
               THEN VolumeEffect(srcs, ux, uy, reg1, distances)
               ELSE [newDistances |-> distances, heap |-> allHowls]
    IN /\ howls' = reg1.howls
       /\ allHowls' = out.heap
       /\ distances' = out.newDistances

\* The effects of one commit of the hook: runRegistration says whether
\* `sources` is among the changed dependencies, the volume effect runs on
\* every change.
Effects(ux, uy, srcs, runRegistration) ==
    LET reg0 == [howls |-> howls, heap |-> allHowls]
        reg1 == IF runRegistration THEN RegistrationEffect(srcs, reg0) ELSE reg0
        out == VolumeEffect(srcs, ux, uy, reg1, distances)
    IN /\ howls' = reg1.howls
       /\ allHowls' = out.heap
       /\ distances' = out.newDistances

\* One render with the given inputs, through to the end of its effects.
Recompute(ux, uy, srcs, runRegistration) ==
    /\ userX' = ux
    /\ userY' = uy
    /\ sources' = srcs
    /\ Effects(ux, uy, srcs, runRegistration)
    /\ rerun' = (mounted /\ ux = userX /\ uy = userY /\ srcs = sources)

Mount ==
    /\ ~mounted
    /\ mounted' = TRUE
    /\ Recompute(userX, userY, sources, TRUE)

MouseMove(p) ==
    /\ mounted
    /\ <<p[1], p[2]>> # <<userX, userY>>
    /\ UNCHANGED mounted
    /\ Recompute(p[1], p[2], sources, FALSE)

SourcesChanged(srcs) ==
    /\ mounted
    /\ UNCHANGED mounted
    /\ Recompute(userX, userY, srcs, TRUE)

AddSource(id, p, src) ==
    /\ Len(sources) < MaxSources
    /\ id \notin SourceIds(sources)
    /\ SourcesChanged(Append(sources, AudioSource(id, p, src)))

RemoveSource(i) ==
    /\ i \in 1..Len(sources)
    /\ SourcesChanged([j \in 1..(Len(sources) - 1) |->
                          IF j < i THEN sources[j] ELSE sources[j + 1]])

MoveSource(i, p) ==
    /\ i \in 1..Len(sources)
    /\ <<sources[i].x, sources[i].y>> # p
    /\ SourcesChanged([sources EXCEPT ![i].x = p[1], ![i].y = p[2]])

ChangeSrc(i, src) ==
    /\ i \in 1..Len(sources)
    /\ sources[i].src # src
    /\ SourcesChanged([sources EXCEPT ![i].src = src])

Republish == SourcesChanged(sources)

Next ==
    \/ Mount /\ UNCHANGED otherVars
    \/ \E p \in ListenerPoints : MouseMove(p) /\ UNCHANGED otherVars
    \/ \E id \in Ids, p \in SourcePoints, src \in Uris :
           AddSource(id, p, src) /\ UNCHANGED otherVars
    \/ \E i \in 1..MaxSources : RemoveSource(i) /\ UNCHANGED otherVars
    \/ \E i \in 1..MaxSources, p \in SourcePoints :
           MoveSource(i, p) /\ UNCHANGED otherVars
    \/ \E i \in 1..MaxSources, src \in Uris : ChangeSrc(i, src) /\ UNCHANGED otherVars
    \/ Republish /\ UNCHANGED otherVars

Spec == Init /\ [][Next]_vars

\* ------------------------------------------------- renders and effects
\* The same hook with a render and the effects it schedules as two steps:
\* SpatialCanvas renders with the new mousePos or nodes and the distances of
\* the previous commit, then the effects run and publish the new distances.

\* handleMouseMove, and the render it causes.
MouseMoveEvent(p) ==
    /\ mounted
    /\ pending = "none"
    /\ <<p[1], p[2]>> # <<userX, userY>>
    /\ userX' = p[1]
    /\ userY' = p[2]
    /\ pending' = "volume"
    /\ UNCHANGED <<sources, howls, allHowls, distances, mounted, rerun, auxVars>>

\* A node store update, and the render it causes.
NodesEvent(srcs) ==
    /\ mounted
    /\ pending = "none"
    /\ sources' = srcs
    /\ pending' = "both"
    /\ UNCHANGED <<userX, userY, howls, allHowls, distances, mounted, rerun, auxVars>>

AddNodeEvent(id, p, src) ==
    /\ Len(sources) < MaxSources
    /\ id \notin SourceIds(sources)
    /\ NodesEvent(Append(sources, AudioSource(id, p, src)))

RemoveNodeEvent(i) ==
    /\ i \in 1..Len(sources)
    /\ NodesEvent([j \in 1..(Len(sources) - 1) |->
                      IF j < i THEN sources[j] ELSE sources[j + 1]])

MoveNodeEvent(i, p) ==
    /\ i \in 1..Len(sources)
    /\ <<sources[i].x, sources[i].y>> # p
    /\ NodesEvent([sources EXCEPT ![i].x = p[1], ![i].y = p[2]])

\* The effects of the last render, run after its commit.
RunEffects ==
    /\ pending # "none"
    /\ Effects(userX, userY, sources, pending = "both")
    /\ pending' = "none"
    /\ UNCHANGED <<userX, userY, sources, mounted, rerun, auxVars>>

NextRender ==
    \/ Mount /\ UNCHANGED otherVars
    \/ \E p \in ListenerPoints : MouseMoveEvent(p)
    \/ \E id \in Ids, p \in SourcePoints, src \in Uris : AddNodeEvent(id, p, src)
    \/ \E i \in 1..MaxSources : RemoveNodeEvent(i)
    \/ \E i \in 1..MaxSources, p \in SourcePoints : MoveNodeEvent(i, p)
    \/ RunEffects

SpecRender == Init /\ [][NextRender]_vars

TypeOK ==
    /\ <<userX, userY>> \in ListenerPoints
    /\ Len(sources) <= MaxSources
    /\ DOMAIN howls \subseteq Ids
    /\ DOMAIN allHowls = HeapIds
    /\ \A id \in DOMAIN howls : howls[id] \in 1..Len(allHowls[id])
    /\ DOMAIN distances \subseteq Ids
    /\ mounted \in BOOLEAN
    /\ rerun \in BOOLEAN
    /\ pending \in {"none", "volume", "both"}
    /\ lastSetGain \in [id : Ids \cup {""}, gain : RequestedGains \cup {0},
                        before : -1..GainUnit]

\* ------------------------------------------------- the guarded volume call
\* The volume call of the tick (useSpatialAudio.ts:49-51) on requests the
\* falloff never makes, and the volume effect on a source the registry has no
\* handle for.

\* The URI of a node that is neither a seed nor a reply.
DefaultSrc == "/white_noise.wav"

setGainFrame == <<pending, failed, canvasVars, extraVars>>

SetGain(id, gain) ==
    /\ mounted
    /\ allHowls' = GuardedVolume(howls, allHowls, id, gain)
    /\ lastSetGain' = [id |-> id, gain |-> gain,
                       before |-> IF id \in DOMAIN howls THEN allHowls[id][howls[id]].volume
                                                         ELSE -1]
    /\ UNCHANGED <<userX, userY, sources, howls, distances, mounted, rerun>>
    /\ UNCHANGED setGainFrame

\* The volume effect alone, on a list whose first source has no handle yet.
UnregisteredTick(id, p) ==
    /\ mounted
    /\ Len(sources) < MaxSources
    /\ id \notin SourceIds(sources)
    /\ id \notin DOMAIN howls
    /\ Recompute(userX, userY, <<AudioSource(id, p, DefaultSrc)>> \o sources, FALSE)
    /\ UNCHANGED <<mounted, setGainFrame>>
    /\ lastSetGain' = NoRequest

NextSetGain ==
    \/ Mount /\ lastSetGain' = NoRequest /\ UNCHANGED setGainFrame
    \/ \E p \in ListenerPoints :
           MouseMove(p) /\ lastSetGain' = NoRequest /\ UNCHANGED setGainFrame
    \/ \E id \in Ids, p \in SourcePoints :
           AddSource(id, p, DefaultSrc) /\ lastSetGain' = NoRequest /\ UNCHANGED setGainFrame
    \/ \E id \in Ids, p \in SourcePoints : UnregisteredTick(id, p)
    \/ \E id \in Ids, gain \in RequestedGains : SetGain(id, gain)

SpecSetGain == Init /\ [][NextSetGain]_vars

\* ------------------------------------------------------ playback failure
\* new Howl is given no onloaderror or onplayerror handler: a Howl that cannot
\* play emits its event to no listener, and the hook is told nothing.  The
\* Howl stays in the registry and goes on accepting volume calls.
failureFrame == <<pending, lastSetGain, canvasVars, extraVars>>

PlaybackError(id) ==
    /\ mounted
    /\ id \in DOMAIN howls
    /\ id \notin failed
    /\ failed' = failed \cup {id}
    /\ UNCHANGED <<hookVars, failureFrame>>

NextFailure ==
    \/ Mount /\ UNCHANGED otherVars
    \/ \E p \in ListenerPoints : MouseMove(p) /\ UNCHANGED otherVars
    \/ \E id \in Ids, p \in SourcePoints :
           AddSource(id, p, DefaultSrc) /\ UNCHANGED otherVars
    \/ \E i \in 1..MaxSources, p \in SourcePoints :
           MoveSource(i, p) /\ UNCHANGED otherVars
    \/ \E id \in Ids : PlaybackError(id)

SpecFailure == Init /\ [][NextFailure]_vars

\* ------------------------------------------------------- focus consumer
CLOSE_THRESHOLD == 250


\* The number an integer-like key stands for.
IdNumber(id) == CHOOSE n \in 1..Max(NumIds, MaxNodes) : ToString(n) = id

\* Object.keys of a record whose keys are all integer-like strings: the keys
\* in ascending numeric order, whatever the order they were assigned in.
RECURSIVE KeysAscending(_)
KeysAscending(S) ==
    IF S = {} THEN <<>>
    ELSE LET k == CHOOSE m \in S : \A j \in S : IdNumber(m) <= IdNumber(j)
         IN <<k>> \o KeysAscending(S \ {k})

ObjectKeys(rec) == KeysAscending(DOMAIN rec)

\* Object.keys(distances).find(id => distances[id] < CLOSE_THRESHOLD)
ClosestNodeId(dists) ==
    LET keys == ObjectKeys(dists)
        hits == {i \in 1..Len(keys) : dists[keys[i]] < CLOSE_THRESHOLD}
    IN IF hits = {} THEN Null
       ELSE keys[CHOOSE i \in hits : \A j \in hits : i <= j]

\* ---------------------------------------------------------- SpatialCanvas
\* The canvas around the hook: node store, focus and reply state, the reply
\* modal and the global mute it drives.  Each action is an event handler
\* together with the renders and effects that follow it.
TimerFull == 100

SrcOf(id) ==
    IF id = "1" THEN "/recording_5.m4a"
    ELSE IF id = "2" THEN "/recording_6.m4a"
    ELSE DefaultSrc

\* audioSources = nodes.map(...): a node with an audioUrl plays it, the two
\* seeded ids play their recordings, any other node plays the default.
AudioSources(ns) ==
    [i \in 1..Len(ns) |->
        AudioSource(ns[i].id, <<ns[i].x, ns[i].y>>,
                    IF "audioUrl" \in DOMAIN ns[i] THEN ns[i].audioUrl
                                                   ELSE SrcOf(ns[i].id))]

\* The focus effect, run when distances change.
FocusEffect(dists, timer, can) ==
    LET closestNodeId == ClosestNodeId(dists)
    IN IF closestNodeId # Null
       THEN [focusedNodeId |-> closestNodeId, focusTimer |-> timer, canReply |-> can]
       ELSE [focusedNodeId |-> Null, focusTimer |-> 0, canReply |-> FALSE]

HowlerMute_ZeroVolumes(muted, heap) ==
    [muted |-> muted,
     heap |-> [id \in DOMAIN heap |->
                 [k \in 1..Len(heap[id]) |->
                    [heap[id][k] EXCEPT !.volume = IF muted THEN 0 ELSE @]]]]

\* Howler.mute(muted) of howler.js: sets the global flag and silences or
\* restores the output; the volume stored on each Howl is not touched.
HowlerMute(muted, heap) == [muted |-> muted, heap |-> heap]

MuteCleanup_Keep(heap) == [muted |-> howlerMuted, heap |-> heap]

\* return () => { Howler.mute(false) }
MuteCleanup(heap) == HowlerMute(FALSE, heap)

\* The mute effect for a changed isReplyModalOpen: the cleanup of the
\* previous run, then Howler.mute(isReplyModalOpen).
MuteEffect(open, heap) == HowlerMute(open, MuteCleanup(heap).heap)

\* One handler's renders and effects: the hook's effects where their
\* dependencies changed, then the focus effect if the distances were set
\* again, then the mute effect if the modal flag changed.
Commit(ux, uy, ns, open, runRegistration, runVolume, firstRender) ==
    LET srcs == AudioSources(ns)
        reg0 == [howls |-> howls, heap |-> allHowls]
        reg1 == IF runRegistration THEN RegistrationEffect(srcs, reg0) ELSE reg0
        out == IF runVolume THEN VolumeEffect(srcs, ux, uy, reg1, distances)
               ELSE [newDistances |-> distances, heap |-> reg1.heap]
        focus == IF runVolume THEN FocusEffect(out.newDistances, focusTimer, canReply)
                 ELSE [focusedNodeId |-> focusedNodeId, focusTimer |-> focusTimer,
                       canReply |-> canReply]
        mute == IF firstRender THEN HowlerMute(open, out.heap)
                ELSE IF open # isReplyModalOpen THEN MuteEffect(open, out.heap)
                ELSE [muted |-> howlerMuted, heap |-> out.heap]
    IN /\ userX' = ux
       /\ userY' = uy
       /\ nodes' = ns
       /\ sources' = srcs
       /\ howls' = reg1.howls
       /\ distances' = out.newDistances
       /\ focusedNodeId' = focus.focusedNodeId
       /\ focusTimer' = focus.focusTimer
       /\ canReply' = focus.canReply
       /\ isReplyModalOpen' = open
       /\ howlerMuted' = mute.muted
       /\ allHowls' = mute.heap
       /\ UNCHANGED <<rerun, pending, lastSetGain, failed, extraVars>>

\* First render, the seeding of an empty store, and the effects of both.
CanvasMount ==
    /\ ~mounted
    /\ mounted' = TRUE
    /\ Commit(userX, userY, IF Len(nodes) = 0 THEN SeedNodes ELSE nodes,
              FALSE, TRUE, TRUE, TRUE)
    /\ UNCHANGED unmounted

CanvasMouseMove(p) ==
    /\ mounted /\ ~unmounted
    /\ <<p[1], p[2]>> # <<userX, userY>>
    /\ Commit(p[1], p[2], nodes, isReplyModalOpen, FALSE, TRUE, FALSE)
    /\ UNCHANGED <<mounted, unmounted>>

\* The 30 ms interval, running while a node is focused and canReply is off.
TimerTick ==
    /\ mounted /\ ~unmounted
    /\ focusedNodeId # Null
    /\ ~canReply
    /\ IF focusTimer >= TimerFull
       THEN canReply' = TRUE /\ focusTimer' = TimerFull
       ELSE focusTimer' = focusTimer + 1 /\ UNCHANGED canReply
    /\ UNCHANGED <<hookVars, pending, lastSetGain, failed, nodes, focusedNodeId,
                   isReplyModalOpen, howlerMuted, unmounted, extraVars>>

\* Space, or the REPLY NOW button of the focused node.
OpenReplyModal ==
    /\ mounted /\ ~unmounted
    /\ canReply
    /\ focusedNodeId # Null
    /\ ~isReplyModalOpen
    /\ Commit(userX, userY, nodes, TRUE, FALSE, FALSE, FALSE)
    /\ UNCHANGED <<mounted, unmounted>>

\* onClose of the modal: the close button, the backdrop or Escape.
CloseReplyModal ==
    /\ mounted /\ ~unmounted
    /\ isReplyModalOpen
    /\ Commit(userX, userY, nodes, FALSE, FALSE, FALSE, FALSE)
    /\ UNCHANGED <<mounted, unmounted>>

\* URL.createObjectURL(blob): a URL no earlier call has returned.
CreateObjectURL(n) == "blob:" \o ToString(n)

NewUserNode_SameId(offset) ==
    [id |-> ToString(Len(nodes)), x |-> userX + offset[1], y |-> userY + offset[2],
     audioUrl |-> CreateObjectURL(Len(nodes) + 1), parentId |-> focusedNodeId]

\* handleReply
NewUserNode(offset) ==
    LET parents == {i \in 1..Len(nodes) : nodes[i].id = focusedNodeId}
        originX == IF parents # {} THEN nodes[CHOOSE i \in parents : TRUE].x ELSE userX
        originY == IF parents # {} THEN nodes[CHOOSE i \in parents : TRUE].y ELSE userY
    IN [id |-> ToString(Len(nodes) + 1), x |-> originX + offset[1],
        y |-> originY + offset[2], audioUrl |-> CreateObjectURL(Len(nodes) + 1),
        parentId |-> focusedNodeId]

\* The modal sends a recording: onReply, then onClose.
Reply(offset) ==
    /\ mounted /\ ~unmounted
    /\ isReplyModalOpen
    /\ Len(nodes) < MaxNodes
    /\ Commit(userX, userY, Append(nodes, NewUserNode(offset)), FALSE, TRUE, TRUE, FALSE)
    /\ UNCHANGED <<mounted, unmounted>>

\* The Exit button: App unmounts the canvas and React runs its cleanups.
Exit ==
    /\ mounted /\ ~unmounted
    /\ unmounted' = TRUE
    /\ howlerMuted' = MuteCleanup(allHowls).muted
    /\ allHowls' = MuteCleanup(allHowls).heap
    /\ UNCHANGED <<userX, userY, sources, howls, distances, mounted, rerun, pending,
                   lastSetGain, failed, nodes, focusedNodeId, focusTimer, canReply,
                   isReplyModalOpen, extraVars>>

NextCanvas ==
    \/ CanvasMount
    \/ \E p \in CanvasMousePoints : CanvasMouseMove(p)
    \/ TimerTick
    \/ OpenReplyModal
    \/ CloseReplyModal
    \/ \E offset \in ReplyOffsets : Reply(offset)
    \/ Exit

SpecCanvas == Init /\ [][NextCanvas]_vars

\* ------------------------------------------------------ joining a room again
\* App mounts a new SpatialCanvas for every room joined.  The new instance
\* has its own state and its own howls ref; the node store is global and
\* keeps its nodes, and the Howls of earlier instances were never stopped.

\* Lobby onJoin: first render of a new canvas instance, the seed effect and
\* every effect that follows.
RoomJoin ==
    /\ ~mounted \/ unmounted
    /\ Len(allHowls["1"]) < MaxJoins
    /\ LET ns == IF Len(nodes) = 0 THEN SeedNodes ELSE nodes
           srcs == AudioSources(ns)
           reg1 == RegistrationEffect(srcs, [howls |-> EmptyRecord, heap |-> allHowls])
           out == VolumeEffect(srcs, 0, 0, reg1, EmptyRecord)
           focus == FocusEffect(out.newDistances, 0, FALSE)
           mute == HowlerMute(FALSE, out.heap)
       IN /\ userX' = 0
          /\ userY' = 0
          /\ nodes' = ns
          /\ sources' = srcs
          /\ howls' = reg1.howls
          /\ distances' = out.newDistances
          /\ focusedNodeId' = focus.focusedNodeId
          /\ focusTimer' = focus.focusTimer
          /\ canReply' = focus.canReply
          /\ isReplyModalOpen' = FALSE
          /\ howlerMuted' = mute.muted
          /\ allHowls' = mute.heap
    /\ mounted' = TRUE
    /\ unmounted' = FALSE
    /\ UNCHANGED <<rerun, pending, lastSetGain, failed, extraVars>>

NextRoom ==
    \/ RoomJoin
    \/ \E p \in CanvasMousePoints : CanvasMouseMove(p)
    \/ TimerTick
    \/ Exit

SpecRoom == Init /\ [][NextRoom]_vars

\* -------------------------------------------------- focus and the interval
\* The focus effect, the timer effect and the interval callback as the
\* separate tasks they are: the hook publishes distances, the focus effect
\* runs after that render, the state it sets is rendered and committed after
\* that, and only this commit clears or installs the interval.  A callback of
\* an interval that is still installed can run between any two of them.
focusFrame ==
    <<rerun, pending, lastSetGain, failed, isReplyModalOpen, howlerMuted, unmounted,
      socketVars>>

\* First render with the seeded store; the hook's effects have run.
FocusMount ==
    /\ ~mounted
    /\ mounted' = TRUE
    /\ nodes' = SeedNodes
    /\ sources' = AudioSources(SeedNodes)
    /\ Effects(userX, userY, AudioSources(SeedNodes), TRUE)
    /\ pendingFocus' = TRUE
    /\ UNCHANGED <<userX, userY, focusedNodeId, focusTimer, canReply, pendingCommit,
                   intervalOn, focusFrame>>

\* handleMouseMove, its render and the hook's volume effect.
FocusMouseMove(p) ==
    /\ mounted
    /\ <<p[1], p[2]>> # <<userX, userY>>
    /\ userX' = p[1]
    /\ userY' = p[2]
    /\ Effects(p[1], p[2], sources, FALSE)
    /\ pendingFocus' = TRUE
    /\ UNCHANGED <<sources, mounted, nodes, focusedNodeId, focusTimer, canReply,
                   pendingCommit, intervalOn, focusFrame>>

\* The focus effect of the render that has the new distances.
RunFocusEffect ==
    /\ pendingFocus
    /\ LET focus == FocusEffect(distances, focusTimer, canReply)
       IN /\ focusedNodeId' = focus.focusedNodeId
          /\ focusTimer' = focus.focusTimer
          /\ canReply' = focus.canReply
    /\ pendingFocus' = FALSE
    /\ pendingCommit' = TRUE
    /\ UNCHANGED <<hookVars, nodes, intervalOn, focusFrame>>

\* setFocusTimer(prev => ...) of the interval callback.
TimerCallback(prev) ==
    IF prev >= TimerFull THEN [focusTimer |-> TimerFull, canReply |-> TRUE]
    ELSE [focusTimer |-> prev + 1, canReply |-> canReply]

IntervalFires ==
    /\ intervalOn
    /\ focusTimer' = TimerCallback(focusTimer).focusTimer
    /\ canReply' = TimerCallback(focusTimer).canReply
    /\ pendingCommit' = TRUE
    /\ UNCHANGED <<hookVars, nodes, focusedNodeId, pendingFocus, intervalOn, focusFrame>>

\* The commit of the render with the state set so far: the timer effect's
\* cleanup clears the interval, and the effect installs a new one if a node
\* is focused and canReply is off.
CommitTimerEffect ==
    /\ pendingCommit
    /\ pendingCommit' = FALSE
    /\ intervalOn' = (focusedNodeId # Null /\ ~canReply)
    /\ UNCHANGED <<hookVars, nodes, focusedNodeId, focusTimer, canReply, pendingFocus,
                   focusFrame>>

NextFocus ==
    \/ FocusMount
    \/ \E p \in CanvasMousePoints : FocusMouseMove(p)
    \/ RunFocusEffect
    \/ IntervalFires
    \/ CommitTimerEffect

SpecFocus == Init /\ [][NextFocus]_vars

\* --------------------------------------------------------------- useSocket
\* The transport hook.  A socket keeps the handlers connect gave it for as
\* long as it lives, whether or not ws.current still points at it.  Events
\* of the browser (open, failure, close) and timeouts are tasks of their own.
socketFrame == <<hookVars, pending, lastSetGain, failed, canvasVars, focusRaceVars>>

SocketState ==
    [sockets |-> sockets, ws |-> ws, isConnected |-> isConnected, timers |-> timers,
     reconnectTimeout |-> reconnectTimeout]

\* new WebSocket(url)
NewSocket == [readyState |-> "CONNECTING", failing |-> FALSE]

\* socket.close(): an open socket starts closing; a connecting one is failed,
\* which the browser reports with an error event before the close event.
CloseCall(st, i) ==
    LET rs == st.sockets[i].readyState
    IN IF rs = "OPEN" THEN [st EXCEPT !.sockets[i].readyState = "CLOSING"]
       ELSE IF rs = "CONNECTING"
            THEN [st EXCEPT !.sockets[i] = [readyState |-> "CLOSING", failing |-> TRUE]]
       ELSE st

\* setIsConnected: React drops a state update of an unmounted component.
SetIsConnected(st, v) ==
    IF hookState = "unmounted" THEN st ELSE [st EXCEPT !.isConnected = v]

OnOpen(st) == SetIsConnected(st, TRUE)

OnClose(st, i) ==
    [SetIsConnected(st, FALSE) EXCEPT !.timers = @ \cup {i}, !.reconnectTimeout = i]

\* ws.current?.close()
OnError(st) == IF st.ws # 0 THEN CloseCall(st, st.ws) ELSE st

Connect(st) ==
    IF st.ws # 0 /\ st.sockets[st.ws].readyState = "OPEN" THEN st
    ELSE [st EXCEPT !.sockets = Append(@, NewSocket), !.ws = Len(st.sockets) + 1]

\* The effect body: if (ws.current) return; connect()
ConnectEffect(st) == IF st.ws # 0 THEN st ELSE Connect(st)

\* The effect's cleanup.
ConnectCleanup(st) ==
    LET closed == IF st.ws # 0 THEN [CloseCall(st, st.ws) EXCEPT !.ws = 0] ELSE st
    IN IF closed.reconnectTimeout # 0
       THEN [closed EXCEPT !.timers = @ \ {closed.reconnectTimeout}]
       ELSE closed

SetSocketState(st) ==
    /\ Len(st.sockets) <= MaxSockets
    /\ sockets' = st.sockets
    /\ ws' = st.ws
    /\ isConnected' = st.isConnected
    /\ timers' = st.timers
    /\ reconnectTimeout' = st.reconnectTimeout
    /\ UNCHANGED socketFrame

\* App renders for the first time.
SocketMount ==
    /\ hookState = "idle"
    /\ hookState' = "mounted"
    /\ SetSocketState(ConnectEffect(SocketState))

\* The effect is run again, by strict mode or for a new url: cleanup, then
\* the effect body, in one commit.
SocketRemount ==
    /\ hookState = "mounted"
    /\ UNCHANGED hookState
    /\ SetSocketState(ConnectEffect(ConnectCleanup(SocketState)))

SocketUnmount ==
    /\ hookState = "mounted"
    /\ hookState' = "unmounted"
    /\ SetSocketState(ConnectCleanup(SocketState))

\* The connection of socket i is established.
SocketOpens(i) ==
    /\ i \in 1..Len(sockets)
    /\ sockets[i].readyState = "CONNECTING"
    /\ UNCHANGED hookState
    /\ SetSocketState(OnOpen([SocketState EXCEPT !.sockets[i].readyState = "OPEN"]))

\* The connection of socket i fails: error event, then close event.
SocketFails(i) ==
    /\ i \in 1..Len(sockets)
    /\ sockets[i].readyState \in {"CONNECTING", "OPEN"}
    /\ UNCHANGED hookState
    /\ SetSocketState(
          OnClose(OnError([SocketState EXCEPT !.sockets[i].readyState = "CLOSED"]), i))

\* The server closes socket i: close event only.
SocketClosedByPeer(i) ==
    /\ i \in 1..Len(sockets)
    /\ sockets[i].readyState = "OPEN"
    /\ UNCHANGED hookState
    /\ SetSocketState(OnClose([SocketState EXCEPT !.sockets[i].readyState = "CLOSED"], i))

\* The close the program asked for completes.
CloseCompletes(i) ==
    /\ i \in 1..Len(sockets)
    /\ sockets[i].readyState = "CLOSING"
    /\ UNCHANGED hookState
    /\ LET closed == [SocketState EXCEPT !.sockets[i].readyState = "CLOSED"]
       IN SetSocketState(
             OnClose(IF sockets[i].failing THEN OnError(closed) ELSE closed, i))

\* window.setTimeout(connect, 3000) comes due.
RetryTimerFires(t) ==
    /\ t \in timers
    /\ UNCHANGED hookState
    /\ SetSocketState(Connect([SocketState EXCEPT !.timers = @ \ {t}]))

NextSocket ==
    \/ SocketMount
    \/ SocketRemount
    \/ SocketUnmount
    \/ \E i \in 1..MaxSockets : SocketOpens(i)
    \/ \E i \in 1..MaxSockets : SocketFails(i)
    \/ \E i \in 1..MaxSockets : SocketClosedByPeer(i)
    \/ \E i \in 1..MaxSockets : CloseCompletes(i)
    \/ \E t \in 1..MaxSockets : RetryTimerFires(t)

SpecSocket == Init /\ [][NextSocket]_vars

\* A timeout that is set comes due, and a close that was asked for completes.
SocketFairness ==
    /\ WF_vars(\E t \in 1..MaxSockets : RetryTimerFires(t))
    /\ WF_vars(\E i \in 1..MaxSockets : CloseCompletes(i))

SpecSocketLive == SpecSocket /\ SocketFairness

\* ------------------------------------------------------------ properties
Handle(id) == allHowls[id][howls[id]]

\* Squared distance between a source and the current listener position.
SquaredDistance(s) == Pow2(s.x - userX) + Pow2(s.y - userY)

Clamp(v, lo, hi) == IF v < lo THEN lo ELSE IF v > hi THEN hi ELSE v

\* The reference falloff clamp(1 - max(0, d - 20) / (150 - 20), 0, 1), in
\* units of 1 / GainUnit.
ReferenceGain(d) == Clamp(GainUnit - Max(0, d - MIN_DISTANCE), 0, GainUnit)

\* C1: at the end of every recompute every id of the current source list has
\* exactly one playback handle: it is in the registry and exactly one Howl
\* was ever constructed for it.
C1_OneHandlePerSource ==
    mounted => \A i \in 1..Len(sources) :
                   /\ sources[i].id \in DOMAIN howls
                   /\ Len(allHowls[sources[i].id]) = 1

C1_Witness ==
    /\ mounted
    /\ Len(sources) >= 2
    /\ rerun
    /\ \A i \in 1..Len(sources) : sources[i].id \in DOMAIN howls

\* C2: at the end of every recompute the gain of every handle held by the
\* registry is the falloff of a distance computed in that same tick.
C2_EveryHandleGainFresh ==
    mounted => \A id \in DOMAIN howls :
                   /\ id \in DOMAIN distances
                   /\ Handle(id).volume = ReferenceGain(distances[id])

\* C3: registering an id that already has a handle constructs no Howl and
\* keeps the handle and its URI, and every registered id has exactly one Howl
\* (an unregistered id has none).
C3_RegistrationIdempotent ==
    /\ [](\A id \in Ids :
             Len(allHowls[id]) = IF id \in DOMAIN howls THEN 1 ELSE 0)
    /\ [][\A id \in DOMAIN howls :
             /\ id \in DOMAIN howls'
             /\ howls'[id] = howls[id]
             /\ Len(allHowls'[id]) = Len(allHowls[id])
             /\ allHowls'[id][howls[id]].src = allHowls[id][howls[id]].src]_vars

C3_Witness ==
    /\ mounted
    /\ \E i \in 1..Len(sources) :
           /\ sources[i].id \in DOMAIN howls
           /\ Handle(sources[i].id).src # sources[i].src

\* C4: the published distance map has exactly the ids of the current source
\* list as keys.
C4_MapKeysAreCurrentIds ==
    mounted => DOMAIN distances = SourceIds(sources)

C4_Witness ==
    /\ mounted
    /\ sources # <<>>
    /\ DOMAIN distances = SourceIds(sources)
    /\ \E id \in DOMAIN howls : id \notin DOMAIN distances

\* C5: a recompute whose inputs (listener position and source list) are those
\* of the recompute before it leaves the registry, every Howl and the
\* published map as they were.
C5_RecomputeIdempotent ==
    [][(mounted /\ userX' = userX /\ userY' = userY /\ sources' = sources)
          => (howls' = howls /\ allHowls' = allHowls /\ distances' = distances)]_vars

C5_Witness ==
    /\ rerun
    /\ \E i \in 1..Len(sources) :
           /\ sources[i].id \in DOMAIN howls
           /\ Handle(sources[i].id).volume > 0
           /\ Handle(sources[i].id).volume < GainUnit

\* C6: a source at distance d <= MIN_DISTANCE (d * d <= 400) has gain 1.0.
C6_DeadZone ==
    mounted => \A i \in 1..Len(sources) :
                   SquaredDistance(sources[i]) <= Pow2(MIN_DISTANCE)
                       => /\ sources[i].id \in DOMAIN howls
                          /\ Handle(sources[i].id).volume = GainUnit

C6_Witness ==
    /\ mounted
    /\ \E i, j \in 1..Len(sources) :
           /\ SquaredDistance(sources[i]) = Pow2(MIN_DISTANCE)
           /\ Handle(sources[i].id).volume = GainUnit
           /\ SquaredDistance(sources[j]) > Pow2(MIN_DISTANCE)
           /\ Handle(sources[j].id).volume < GainUnit

\* C7: a source at distance d >= MAX_DISTANCE (d * d >= 22500) has gain 0.0.
C7_Cutoff ==
    mounted => \A i \in 1..Len(sources) :
                   SquaredDistance(sources[i]) >= Pow2(MAX_DISTANCE)
                       => /\ sources[i].id \in DOMAIN howls
                          /\ Handle(sources[i].id).volume = 0

\* The source was audible at (50, 0) before it moved out to the cutoff.
C7_Witness ==
    /\ mounted
    /\ \E i \in 1..Len(sources) :
           /\ SquaredDistance(sources[i]) = Pow2(MAX_DISTANCE)
           /\ Handle(sources[i].id).volume = 0
    /\ \E id \in DOMAIN howls :
           /\ id \notin SourceIds(sources)
           /\ Handle(id).volume > 0

\* C8: of two sources with 20 <= d1 < d2 <= 150 the nearer one has a gain at
\* least that of the farther one.
C8_Monotone ==
    mounted => \A i, j \in 1..Len(sources) :
                   (/\ Pow2(MIN_DISTANCE) <= SquaredDistance(sources[i])
                    /\ SquaredDistance(sources[i]) < SquaredDistance(sources[j])
                    /\ SquaredDistance(sources[j]) <= Pow2(MAX_DISTANCE))
                       => Handle(sources[i].id).volume >= Handle(sources[j].id).volume

C8_Witness ==
    /\ mounted
    /\ \E i, j \in 1..Len(sources) :
           /\ Pow2(MIN_DISTANCE) < SquaredDistance(sources[i])
           /\ SquaredDistance(sources[i]) < SquaredDistance(sources[j])
           /\ SquaredDistance(sources[j]) < Pow2(MAX_DISTANCE)
           /\ Handle(sources[i].id).volume > Handle(sources[j].id).volume

\* C9: the volume of every source is the reference falloff of its distance:
\* 1.0 at d = 20, 1 - 30/130 at d = 50, 0.0 at d = 150, linear in between.
C9_MatchesReferenceFalloff ==
    mounted => \A i \in 1..Len(sources) :
                   LET d == distances[sources[i].id]
                       v == Handle(sources[i].id).volume
                   IN /\ v = ReferenceGain(d)
                      /\ (d = 20 => v = GainUnit)
                      /\ (d = 50 => v = GainUnit - 30)
                      /\ (d = 150 => v = 0)
                      /\ (d >= 20 /\ d <= 150 => v = MAX_DISTANCE - d)

C9_Witness ==
    /\ mounted
    /\ \E i \in 1..Len(sources) :
           /\ distances[sources[i].id] = 50
           /\ Handle(sources[i].id).volume = 100

\* C10: the published distance of every source is the Euclidean distance
\* (to the pixel) between it and the listener of the same tick: it is the
\* non-negative d with d * d <= dx^2 + dy^2 < (d + 1)^2; (0,0)-(3,4) is 5,
\* and (50,0) is at 50 from both (0,0) and (100,0).
C10_EuclideanDistance ==
    mounted => \A i \in 1..Len(sources) :
                   LET d == distances[sources[i].id]
                       n == SquaredDistance(sources[i])
                   IN /\ d >= 0
                      /\ d * d <= n
                      /\ n < (d + 1) * (d + 1)
                      /\ (<<sources[i].x, sources[i].y>> = <<3, 4>>
                            /\ <<userX, userY>> = <<0, 0>> => d = 5)
                      /\ (<<sources[i].x, sources[i].y>> = <<50, 0>>
                            /\ <<userX, userY>> \in {<<0, 0>>, <<100, 0>>} => d = 50)

C10_Witness ==
    /\ mounted
    /\ <<userX, userY>> = <<100, 0>>
    /\ \E i, j \in 1..Len(sources) :
           /\ <<sources[i].x, sources[i].y>> = <<50, 0>>
           /\ distances[sources[i].id] = 50
           /\ <<sources[j].x, sources[j].y>> = <<3, 4>>
           /\ distances[sources[j].id] = 97

\* C15: when several sources are within the focus threshold the consumer's
\* choice is the first of them in the order of the tick's source list.
C15_FocusFirstInSourceOrder ==
    mounted =>
        LET within == {i \in 1..Len(sources) :
                          distances[sources[i].id] < CLOSE_THRESHOLD}
        IN Cardinality(within) >= 2 =>
               ClosestNodeId(distances) =
                   sources[CHOOSE i \in within : \A j \in within : i <= j].id

\* The mixer started from nothing and run once on the given inputs.
FreshRegistry == [howls |-> EmptyRecord, heap |-> [id \in HeapIds |-> <<>>]]

FreshTick(ux, uy, srcs) ==
    VolumeEffect(srcs, ux, uy, RegistrationEffect(srcs, FreshRegistry), EmptyRecord)

\* C19: whatever the earlier ticks were, the published map and the gain of
\* every listed id are those a mixer without any history gives on the same
\* listener position and source list.
C19_TickStateless ==
    mounted =>
        LET fresh == FreshTick(userX, userY, sources)
        IN /\ distances = fresh.newDistances
           /\ \A i \in 1..Len(sources) :
                  Handle(sources[i].id).volume = fresh.heap[sources[i].id][1].volume

\* The history shows (a dropped id still has its Howl, a listed id plays the
\* URI of an earlier list, and it was louder before) but not in the outputs.
C19_Witness ==
    /\ mounted
    /\ \E id \in DOMAIN howls : id \notin SourceIds(sources) /\ Handle(id).volume > 0
    /\ \E i \in 1..Len(sources) :
           /\ Handle(sources[i].id).src # sources[i].src
           /\ Handle(sources[i].id).volume = 0
           /\ distances[sources[i].id] > MAX_DISTANCE

\* C20: a handle, once created, stays in the registry for good: same Howl,
\* same URI, still looping, no second Howl for its id, whether or not its id
\* is still in the source list.
C20_NeverTornDown ==
    [][\A id \in DOMAIN howls :
          /\ id \in DOMAIN howls'
          /\ howls'[id] = howls[id]
          /\ Len(allHowls'[id]) = Len(allHowls[id])
          /\ allHowls'[id][howls[id]].src = allHowls[id][howls[id]].src
          /\ allHowls'[id][howls[id]].loop
          /\ allHowls'[id][howls[id]].autoplay]_vars

C20_Witness ==
    /\ mounted
    /\ sources = <<>>
    /\ Cardinality(DOMAIN howls) >= 2
    /\ \A id \in DOMAIN howls : Handle(id).loop

\* The outputs the hook gives for the inputs of the current state.
SourceWithId(id) == sources[CHOOSE i \in 1..Len(sources) : sources[i].id = id]

OutputsOfCurrentInputs ==
    /\ distances = [id \in SourceIds(sources) |->
                       Dist(SourceWithId(id), userX, userY)]
    /\ \A id \in SourceIds(sources) :
           /\ id \in DOMAIN howls
           /\ Handle(id).volume = Vol(Dist(SourceWithId(id), userX, userY))

\* C17: every change of the listener position or of the source list leaves
\* effects to run, and once they have run the published map and the gains
\* are those of the latest listener position and source list.
C17_ChangeTriggersRecompute ==
    /\ [](mounted /\ pending = "none" => OutputsOfCurrentInputs)
    /\ [][<<userX, userY, sources>>' # <<userX, userY, sources>>
             => pending' # "none"]_vars

C17_Witness ==
    /\ mounted
    /\ pending = "none"
    /\ <<userX, userY>> = <<100, 0>>
    /\ Len(sources) >= 2
    /\ \E i \in 1..Len(sources) : distances[sources[i].id] = 97
    /\ OutputsOfCurrentInputs

\* C18: in every state a consumer can read, the published map, the listener
\* position and the gains derive from one and the same input.
C18_NoTornRead ==
    mounted => OutputsOfCurrentInputs

VolumesInRange ==
    \A id \in Ids : \A k \in 1..Len(allHowls[id]) :
        allHowls[id][k].volume >= 0 /\ allHowls[id][k].volume <= GainUnit

RequestOnHandle ==
    /\ lastSetGain # NoRequest
    /\ lastSetGain.id \in DOMAIN howls
    /\ (lastSetGain.gain < 0 \/ lastSetGain.gain > GainUnit)

ListedWithoutHandle == {id \in SourceIds(sources) : id \notin DOMAIN howls}

\* C12: a gain request for an id without a handle changes nothing and
\* raises nothing: the registry and every Howl are as before, and a tick over
\* a list with such an id still records its distance and sets the gain of
\* every other source.
C12_MissingHandleIsNoOp ==
    /\ [](mounted =>
            /\ DOMAIN distances = SourceIds(sources)
            /\ \A i \in 1..Len(sources) :
                  /\ distances[sources[i].id] =
                        Sqrt(SquaredDistance(sources[i]))
                  /\ sources[i].id \in DOMAIN howls =>
                        Handle(sources[i].id).volume = Vol(distances[sources[i].id]))
    /\ [][/\ (lastSetGain' # NoRequest /\ lastSetGain'.id \notin DOMAIN howls) =>
               (howls' = howls /\ allHowls' = allHowls)
          /\ (ListedWithoutHandle # {} /\ <<userX, userY>>' # <<userX, userY>>) =>
               /\ howls' = howls
               /\ \A id \in Ids : Len(allHowls'[id]) = Len(allHowls[id])]_vars

C12_Witness ==
    /\ Len(sources) = 2
    /\ sources[1].id \notin DOMAIN howls
    /\ sources[2].id \in DOMAIN howls
    /\ userX = 100
    /\ sources[1].id \in DOMAIN distances
    /\ distances[sources[2].id] = 50
    /\ Handle(sources[2].id).volume = 100

\* C16: with the Howl of one source failed, a tick still publishes the
\* distance of every listed source and still sets the gain of every source
\* whose Howl has not failed.
C16_FailureIsolated ==
    mounted =>
        /\ DOMAIN distances = SourceIds(sources)
        /\ \A i \in 1..Len(sources) :
              /\ distances[sources[i].id] = Sqrt(SquaredDistance(sources[i]))
              /\ sources[i].id \notin failed =>
                    Handle(sources[i].id).volume = Vol(distances[sources[i].id])

C16_Witness ==
    /\ Len(sources) = 2
    /\ sources[1].id \in failed
    /\ sources[2].id \notin failed
    /\ <<userX, userY>> = <<100, 0>>
    /\ distances[sources[1].id] = 150
    /\ distances[sources[2].id] = 50
    /\ Handle(sources[2].id).volume = 100

\* C13: a step that turns the global mute flag on or off leaves every
\* handle in the registry, bound to the same Howl with the same stored gain,
\* and adds no handle of its own: the registry and the Howls are unchanged
\* unless the same reply also appended a node.
C13_MuteKeepsGains ==
    [][howlerMuted' # howlerMuted =>
          /\ \A id \in DOMAIN howls :
                /\ id \in DOMAIN howls'
                /\ howls'[id] = howls[id]
                /\ allHowls'[id][howls[id]] = allHowls[id][howls[id]]
          /\ nodes' = nodes => (howls' = howls /\ allHowls' = allHowls)]_vars

C13_Witness ==
    /\ Len(nodes) = 3
    /\ ~howlerMuted
    /\ ~isReplyModalOpen
    /\ <<userX, userY>> = <<0, 0>>
    /\ Handle("2").volume = 9
    /\ DOMAIN howls = {"1", "2", "3"}

\* C14: while the canvas is mounted the global mute flag equals the
\* modal's open flag, and once the canvas is unmounted the flag is off, even
\* when the modal was open at that moment.
C14_MuteFollowsModal ==
    /\ (mounted /\ ~unmounted) => (howlerMuted = isReplyModalOpen)
    /\ unmounted => ~howlerMuted

C14_Witness ==
    /\ unmounted
    /\ isReplyModalOpen
    /\ ~howlerMuted

\* C22: canReply turns on only at the end of a full count on the node in
\* focus, the timer moves only by +1 or back to 0 and stays within 0..100,
\* and a focus that moves to another node starts with the timer at 0 and
\* canReply off.
C22_UnlockOnlyByLingering ==
    /\ [](focusTimer \in 0..TimerFull)
    /\ [][focusTimer' # focusTimer =>
              (focusTimer' = 0 \/ focusTimer' = focusTimer + 1)]_vars
    /\ [][(canReply' /\ ~canReply) =>
              /\ focusTimer = TimerFull
              /\ focusedNodeId # Null
              /\ focusedNodeId' = focusedNodeId]_vars
    /\ [][(focusedNodeId' # focusedNodeId /\ focusedNodeId' # Null) =>
              (focusTimer' = 0 /\ ~canReply')]_vars

Settled == ~pendingFocus /\ ~pendingCommit

\* C23: in every settled state without a focused node the timer is 0 and
\* canReply is off.
C23_NoFocusNoUnlock ==
    (Settled /\ focusedNodeId = Null) => (focusTimer = 0 /\ ~canReply)

\* C24: every reply is sent with a node of the store in focus: the new
\* node names it as parentId and lies 250 px from it.
C24_ReplyHasParent ==
    [][(Len(nodes) > 0 /\ Len(nodes') = Len(nodes) + 1) =>
          \E i \in 1..Len(nodes) :
              /\ nodes[i].id = focusedNodeId
              /\ nodes'[Len(nodes')].parentId = nodes[i].id
              /\ Pow2(nodes'[Len(nodes')].x - nodes[i].x)
                   + Pow2(nodes'[Len(nodes')].y - nodes[i].y) = Pow2(250)]_vars

\* C25: node ids, and with them the ids of the source list, are pairwise
\* distinct, and every reply node has a handle of its own whose Howl plays
\* that node's blob URL, which no other node has.
C25_IdsUnique ==
    mounted =>
        /\ \A i, j \in 1..Len(nodes) : nodes[i].id = nodes[j].id => i = j
        /\ Len(sources) = Len(nodes)
        /\ \A i, j \in 1..Len(sources) : sources[i].id = sources[j].id => i = j
        /\ \A i \in 1..Len(nodes) :
              "audioUrl" \in DOMAIN nodes[i] =>
                 /\ nodes[i].id \in DOMAIN howls
                 /\ Len(allHowls[nodes[i].id]) = 1
                 /\ Handle(nodes[i].id).src = nodes[i].audioUrl
                 /\ \A j \in 1..Len(nodes) :
                       ("audioUrl" \in DOMAIN nodes[j] /\ j # i) =>
                          nodes[j].audioUrl # nodes[i].audioUrl

C25_Witness ==
    /\ Len(nodes) >= 3
    /\ nodes[3].id = "3"
    /\ nodes[3].audioUrl = "blob:3"
    /\ Handle("3").src = "blob:3"
    /\ Handle("1").src = "/recording_5.m4a"

\* The Howls of an id that are sounding: every Howl is constructed with
\* autoplay and loop, and nothing in the program stops or unloads one.
Playing(id) == {k \in 1..Len(allHowls[id]) : allHowls[id][k].autoplay /\ allHowls[id][k].loop}

\* C21: no id has two Howls playing at once, every playing Howl is the one
\* the mounted canvas holds for its id, and with the canvas unmounted no
\* Howl is playing.
C21_NoOrphanPlayback ==
    \A id \in HeapIds :
        /\ Cardinality(Playing(id)) <= 1
        /\ \A k \in Playing(id) :
              /\ mounted /\ ~unmounted
              /\ id \in DOMAIN howls
              /\ howls[id] = k

LiveSockets == {i \in 1..Len(sockets) : sockets[i].readyState \in {"CONNECTING", "OPEN"}}

\* C26: at most one socket the hook created is connecting or open.
C26_SingleConnection == Cardinality(LiveSockets) <= 1

\* C27: once the cleanup has run on unmount, no socket is created and no
\* retry is scheduled.
C27_QuietAfterUnmount ==
    [][hookState = "unmounted" =>
          (Len(sockets') = Len(sockets) /\ timers' \subseteq timers)]_vars

CurrentIs(states) == ws # 0 /\ sockets[ws].readyState \in states

CloseSetsDisconnected ==
    [][(hookState = "mounted" /\ CurrentIs({"CONNECTING", "OPEN", "CLOSING"})
          /\ sockets'[ws].readyState = "CLOSED") => ~isConnected']_vars

RetryFollowsClose ==
    (hookState = "mounted" /\ CurrentIs({"CLOSED"}))
       ~> (\/ CurrentIs({"CONNECTING", "OPEN"})
           \/ hookState # "mounted"
           \/ Len(sockets) = MaxSockets)

ConnectedOnlyWhileOpen ==
    [](hookState = "mounted" /\ isConnected => CurrentIs({"OPEN"}))

\* C28: while the hook is mounted, a close of the current socket turns
\* isConnected off and is followed by a new connection attempt, and
\* isConnected is on only while the current socket is open.
C28_RetryMachine ==
    /\ CloseSetsDisconnected
    /\ RetryFollowsClose
    /\ ConnectedOnlyWhileOpen
====
